---- MODULE Spec2Model ----
(***************************************************************************)
(* Model of DocumentationGPTTool (src/graphrag_mcp/documentation_tool.py): *)
(* search_documentation and hybrid_search over a vector index (Qdrant), a  *)
(* graph store (Neo4j) and an embedding model.  The three services are     *)
(* external: each call to one of them either answers according to the      *)
(* graph / collection contents or raises.                                  *)
(***************************************************************************)
EXTENDS Integers, Sequences, FiniteSets, TLC

(* ---------------------------------------------------------------- bounds *)
\* largest `limit` argument a caller passes (limit ranges over 1..MaxLimit)
MaxLimit == 2
\* largest number of RELATED_TO edges in the graph store
MaxEdges == 3

(* ------------------------------------------------- the stores' contents *)
Docs == {"D1", "D2", "D3"}
Chunks == {"c1", "c2", "c3"}
Categories == {"api", "setup"}
\* Python's None: the category default, and the id / title of a null node
None == "None"

\* (c:Chunk)-[:PART_OF]->(d:Document); D3 owns no indexed chunk
PART_OF == {<<"c1", "D1">>, <<"c2", "D2">>, <<"c3", "D2">>}
\* (d:Document)-[:HAS_CATEGORY]->(cat:Category)
HAS_CATEGORY == {<<"D1", "api">>, <<"D2", "api">>, <<"D2", "setup">>, <<"D3", "setup">>}
\* d.title; the title of a null node is null
Title == [d \in Docs \cup {None} |-> IF d = None THEN None ELSE "title of " \o d]
\* similarity of each indexed chunk to the query (percent), all different
Score == [c \in Chunks |-> CASE c = "c1" -> 90 [] c = "c2" -> 80 [] OTHER -> 70]
\* result.payload['text'], "" when the payload has no text field
Text == [c \in Chunks |-> IF c = "c3" THEN "" ELSE "text of " \o c]

\* the RELATED_TO edges a graph store may hold: a document is related to
\* other documents, in either or both directions
Links == {p \in Docs \X Docs : p[1] # p[2]}

TheQuery == "installation steps"

VARIABLES
    relatedTo,       \* the graph store's (d)-[:RELATED_TO]->(related) edges
    model,           \* self.model: None or "loaded"
    qdrant_client,   \* self.qdrant_client: None or "client"
    neo4j_driver,    \* self.neo4j_driver: None or "driver"
    pc,              \* position of the one running call
    op,              \* the tool called: search_documentation or hybrid_search
    limit,           \* hybrid_search's limit argument (0 outside hybrid_search)
    sd_limit,        \* search_documentation's limit argument
    category,        \* the category argument, None when absent
    expand_context,  \* hybrid_search's expand_context argument
    results,         \* the results dict (vector_results in hybrid_search)
    related_docs,    \* search_documentation's local set related_docs
    pending,         \* records of the first-pass graph query not yet iterated
    provenance,      \* for each related_documents entry, the step that appended it
    qdrantLog,       \* the calls made to the vector index in this call
    graphLog,        \* the queries sent to the graph store in this call
    failed,          \* the stages that failed in this call
    returned,        \* <<what search_documentation returned>>, <<>> before it returns
    doc_ids          \* hybrid_search's local list doc_ids

vars == <<relatedTo, model, qdrant_client, neo4j_driver, pc, op, limit, sd_limit,
          category, expand_context, results, related_docs, pending, provenance,
          qdrantLog, graphLog, failed, returned, doc_ids>>

handles == <<model, qdrant_client, neo4j_driver>>

(* ------------------------------------------------------------- helpers *)
Range(s) == {s[i] : i \in 1..Len(s)}

Min(a, b) == IF a < b THEN a ELSE b

\* every ordering of the elements of S (the stores fix no order of their own)
Perms(S) == {s \in [1..Cardinality(S) -> S] : \A i, j \in 1..Cardinality(S) : i # j => s[i] # s[j]}

HasError(r) == "error" \in DOMAIN r

\* results["error"] = e
SetError(r, e) == [k \in DOMAIN r \cup {"error"} |-> IF k = "error" THEN e ELSE r[k]]

\* results["related_documents"] extended by the entries es
AppendDocs(r, es) == [r EXCEPT !["related_documents"] = @ \o es]

NewResults == [query |-> TheQuery, chunks |-> <<>>, related_documents |-> <<>>]

(* ------------------------------------------------- the embedding model *)
\* lines 110-118: the lazy load of the model, then model.encode(query).
\* The load is inside a try, the encode is not.
EmbedOutcomes(m) == IF m = None THEN {"load_failed", "ok", "encode_failed"}
                    ELSE {"ok", "encode_failed"}

(* ---------------------------------------------------- the vector index *)
\* the hits of S ordered by descending score
RECURSIVE ByScore(_)
ByScore(S) ==
    IF S = {} THEN <<>>
    ELSE LET top == CHOOSE c \in S : \A x \in S : Score[x] <= Score[c]
         IN <<top>> \o ByScore(S \ {top})

\* qdrant_client.search(..., limit=limit): at most limit points, best first
SearchResults(lim) == {ByScore(H) : H \in {X \in SUBSET Chunks : Cardinality(X) <= lim}}

\* lines 139-153: one chunk entry per hit
ChunkEntries(hits) ==
    [i \in 1..Len(hits) |-> [chunk_id |-> hits[i], text |-> Text[hits[i]], score |-> Score[hits[i]]]]

\* as LegacyFallback, with `except Exception` in the place of `except TypeError`
LegacyFallbackOnAnyError(outcome) == outcome # "ok"

\* line 130: which outcome of the canonical call leads to the legacy call
LegacyFallback(outcome) == outcome = "TypeError"

\* what a call of the vector index can do: answer, raise TypeError (the
\* keyword is not accepted), or raise anything else; None has no search()
CallOutcomes(client) == IF client = None THEN {"Exception"} ELSE {"ok", "TypeError", "Exception"}

(* ------------------------------------------- first-pass graph expansion *)
\* as ShouldExpand, without the test for chunks
ShouldExpandWithoutChunks(driver, chunks) == driver # None

\* line 158: the graph store is queried only with a driver and some chunks
ShouldExpand(driver, chunks) == driver # None /\ Len(chunks) > 0

\* line 163
ChunkIds(chunks) == [i \in 1..Len(chunks) |-> chunks[i].chunk_id]

\* lines 165-186: the documents d matched by the query, one record each:
\* owners of a chunk of chunk_ids, tagged with the category if one is given
FirstPassRecords(chunk_ids, cat) ==
    {d \in Docs : /\ \E c \in Range(chunk_ids) : <<c, d>> \in PART_OF
                  /\ (cat # None => <<d, cat>> \in HAS_CATEGORY)}

\* record["related_docs"]: collect(DISTINCT {doc_id: related.id, ...}); the
\* OPTIONAL MATCH without a match leaves related null, and the map of a null
\* node, {doc_id: null, title: null}, is collected like any other
RelatedOf(d) ==
    LET targets == {r \in Docs : <<d, r>> \in relatedTo}
    IN IF targets = {} THEN {None} ELSE targets

DocEntry(d) == [doc_id |-> d, title |-> Title[d]]

\* as OriginEntries, with the cap on related documents applied to origins too
OriginEntriesCapped(doc_id, seen, lim) ==
    IF Cardinality(seen) >= lim THEN <<>> ELSE <<DocEntry(doc_id)>>

\* lines 195-198: the document of the record itself
OriginEntries(doc_id, seen, lim) == <<DocEntry(doc_id)>>

\* lines 201-211: the loop over record["related_docs"], from position i on
RECURSIVE RelatedLoop(_, _, _, _, _)
RelatedLoop(related, i, seen, out, lim) ==
    IF i > Len(related) THEN [seen |-> seen, out |-> out]
    ELSE IF related[i] \notin seen
         THEN LET seen2 == seen \cup {related[i]}
                  out2 == Append(out, DocEntry(related[i]))
              IN IF Cardinality(seen2) >= lim
                 THEN [seen |-> seen2, out |-> out2]
                 ELSE RelatedLoop(related, i + 1, seen2, out2, lim)
         ELSE RelatedLoop(related, i + 1, seen, out, lim)

\* the entries es, each with the step that appends it
Tagged(es, t) == [i \in 1..Len(es) |-> [entry |-> es[i], by |-> t]]

\* as RecordEntries, with the origin appended after the loop over its related
RecordEntriesRelatedFirst(origin, related) == related \o origin

\* lines 190-211: what one record appends, and in which order
RecordEntries(origin, related) == origin \o related

Entries(items) == [i \in 1..Len(items) |-> items[i].entry]

Steps(items) == [i \in 1..Len(items) |-> items[i].by]

(* ------------------------------------------------------- deep expansion *)
\* as SeedIds, over related_documents[:limit]
SeedIdsTruncated(r) ==
    [i \in 1..Min(limit, Len(r.related_documents)) |-> r.related_documents[i].doc_id]

\* line 240
SeedIds(r) == [i \in 1..Len(r.related_documents) |-> r.related_documents[i].doc_id]

\* lines 246-248: the matches of (d)-[:RELATED_TO*1..2]->(related) from the
\* documents d with d.id IN doc_ids; a path uses no relationship twice
PathCount(r, ids) ==
    LET seeds == {d \in Docs : d \in Range(ids)}
        one == {d \in seeds : <<d, r>> \in relatedTo}
        two == {p \in seeds \X Docs : /\ <<p[1], p[2]>> \in relatedTo
                                      /\ <<p[2], r>> \in relatedTo
                                      /\ <<p[1], p[2]>> # <<p[2], r>>}
    IN Cardinality(one) + Cardinality(two)

\* as DeepCandidates, without `related.id NOT IN $doc_ids`
DeepCandidatesUnfiltered(ids) == {r \in Docs : PathCount(r, ids) > 0}

\* line 250: related IS NOT NULL AND related.id NOT IN $doc_ids.  With a
\* null in doc_ids, x NOT IN doc_ids is null for every x outside the list,
\* and WHERE drops the row
DeepCandidates(ids) ==
    IF None \in Range(ids) THEN {}
    ELSE {r \in Docs : PathCount(r, ids) > 0 /\ r \notin Range(ids)}

\* lines 251-254: one row per related document, ORDER BY relevance_score
\* DESC LIMIT $limit; rows of equal score come in any order
ExpandDeep(ids, lim) ==
    LET cands == DeepCandidates(ids)
        k == Min(lim, Cardinality(cands))
    IN {s \in UNION {Perms(T) : T \in {X \in SUBSET cands : Cardinality(X) = k}} :
          /\ \A i \in 1..(k - 1) : PathCount(s[i], ids) >= PathCount(s[i + 1], ids)
          /\ \A r \in cands \ Range(s) : \A i \in 1..k : PathCount(r, ids) <= PathCount(s[i], ids)}

\* lines 260-265
DeepEntries(recs, ids) ==
    [i \in 1..Len(recs) |-> [doc_id |-> recs[i], title |-> Title[recs[i]],
                              graph_score |-> PathCount(recs[i], ids)]]

\* as DeepFailure, returning a fresh result that holds only the error
DeepFailureDropsCollected(r, es) == SetError(NewResults, "Graph expansion error")

\* lines 266-267: the handler of a failed deep expansion, after the entries
\* es had been appended
DeepFailure(r, es) == SetError(AppendDocs(r, es), "Graph expansion error")

(* --------------------------------------------------------------- state *)
\* lines 20-90: after __init__ / _connect each handle is set or, when its
\* construction raised, still None; no call is running
Init ==
    /\ relatedTo \in {E \in SUBSET Links : Cardinality(E) <= MaxEdges}
    /\ model \in {None, "loaded"}
    /\ qdrant_client \in {None, "client"}
    /\ neo4j_driver \in {None, "driver"}
    /\ pc = "idle"
    /\ op = None
    /\ limit = 0
    /\ sd_limit = 0
    /\ category = None
    /\ expand_context = FALSE
    /\ results = NewResults
    /\ related_docs = {}
    /\ pending = {}
    /\ provenance = <<>>
    /\ qdrantLog = <<>>
    /\ graphLog = <<>>
    /\ failed = {}
    /\ returned = <<>>
    /\ doc_ids = <<>>

\* the server runs one call at a time, each to its end
Idle == pc \in {"idle", "done", "raised"}

\* lines 104-108: a call starts with fresh results and locals
Enter(o, hl, l, cat, ec) ==
    /\ op' = o
    /\ limit' = hl
    /\ sd_limit' = l
    /\ category' = cat
    /\ expand_context' = ec
    /\ results' = NewResults
    /\ related_docs' = {}
    /\ pending' = {}
    /\ provenance' = <<>>
    /\ qdrantLog' = <<>>
    /\ graphLog' = <<>>
    /\ failed' = {}
    /\ returned' = <<>>
    /\ doc_ids' = <<>>
    /\ pc' = "embed"
    /\ UNCHANGED <<relatedTo, model, qdrant_client, neo4j_driver>>

\* search_documentation(query, limit, category) called as a tool
search_documentation ==
    /\ Idle
    /\ \E l \in 1..MaxLimit, cat \in Categories \cup {None} :
          Enter("search_documentation", 0, l, cat, FALSE)

\* hybrid_search(query, limit, category, expand_context): line 233 calls
\* search_documentation with limit*2
hybrid_search ==
    /\ Idle
    /\ \E l \in 1..MaxLimit, cat \in Categories \cup {None}, ec \in BOOLEAN :
          Enter("hybrid_search", l, 2 * l, cat, ec)

\* lines 110-118
GenerateEmbedding ==
    /\ pc = "embed"
    /\ \E o \in EmbedOutcomes(model) :
        /\ model' = IF o = "load_failed" THEN None ELSE "loaded"
        /\ results' = IF o = "load_failed"
                      THEN SetError(results, "Failed to load embedding model")
                      ELSE results
        /\ failed' = CASE o = "load_failed" -> failed \cup {"model_load"}
                       [] o = "encode_failed" -> failed \cup {"encode"}
                       [] OTHER -> failed
        /\ pc' = CASE o = "load_failed" -> "sd_return"
                   [] o = "encode_failed" -> "raised"
                   [] OTHER -> "qdrant"
    /\ UNCHANGED <<relatedTo, qdrant_client, neo4j_driver, op, limit, sd_limit, category,
                   expand_context, related_docs, pending, provenance, qdrantLog, graphLog,
                   returned, doc_ids>>

\* one call of qdrant_client.search in the given shape, and lines 138-155
SearchQdrant(shape) ==
    /\ \E o \in CallOutcomes(qdrant_client) :
        /\ qdrantLog' = Append(qdrantLog, [shape |-> shape, outcome |-> o])
        /\ IF o = "ok"
           THEN /\ \E hits \in SearchResults(sd_limit) :
                     results' = [results EXCEPT !.chunks = ChunkEntries(hits)]
                /\ pc' = "expand"
                /\ failed' = failed
           ELSE IF shape = "query_vector" /\ LegacyFallback(o)
           THEN /\ pc' = "qdrant_legacy"
                /\ UNCHANGED <<results, failed>>
           ELSE /\ results' = SetError(results, "Qdrant search error")
                /\ failed' = failed \cup {IF qdrant_client = None THEN "vector_handle"
                                          ELSE "vector_search"}
                /\ pc' = "expand"
    /\ UNCHANGED <<relatedTo, handles, op, limit, sd_limit, category, expand_context,
                   related_docs, pending, provenance, graphLog, returned, doc_ids>>

\* lines 123-129: the call with query_vector=
SearchCanonical ==
    /\ pc = "qdrant"
    /\ SearchQdrant("query_vector")

\* lines 130-136: the call with vector=
SearchLegacy ==
    /\ pc = "qdrant_legacy"
    /\ SearchQdrant("vector")

\* lines 158-186 and 213-214: the first-pass query is sent, or skipped
QueryGraph ==
    /\ pc = "expand"
    /\ IF ShouldExpand(neo4j_driver, results.chunks)
       THEN /\ graphLog' = Append(graphLog, "first_pass")
            /\ \/ /\ pending' = FirstPassRecords(ChunkIds(results.chunks), category)
                  /\ pc' = IF pending' = {} THEN "sd_return" ELSE "records"
                  /\ UNCHANGED <<results, failed>>
               \/ /\ results' = SetError(results, "Neo4j query error")
                  /\ failed' = failed \cup {"graph_query"}
                  /\ pc' = "sd_return"
                  /\ pending' = {}
       ELSE /\ failed' = IF neo4j_driver = None /\ Len(results.chunks) > 0
                         THEN failed \cup {"graph_handle"} ELSE failed
            /\ pc' = "sd_return"
            /\ UNCHANGED <<graphLog, results, pending>>
    /\ UNCHANGED <<relatedTo, handles, op, limit, sd_limit, category, expand_context,
                   related_docs, provenance, qdrantLog, returned, doc_ids>>

\* lines 190-211: one iteration of `for record in result`
ProcessRecord ==
    /\ pc = "records"
    /\ \E d \in pending : \E related \in Perms(RelatedOf(d)) :
        LET loop == RelatedLoop(related, 1, related_docs, <<>>, sd_limit)
            items == RecordEntries(Tagged(OriginEntries(d, related_docs, sd_limit), "origin"),
                                   Tagged(loop.out, "related"))
        IN /\ results' = AppendDocs(results, Entries(items))
           /\ provenance' = provenance \o Steps(items)
           /\ related_docs' = loop.seen
           /\ pending' = pending \ {d}
           /\ pc' = IF pending' = {} THEN "sd_return" ELSE "records"
    /\ UNCHANGED <<relatedTo, handles, op, limit, sd_limit, category, expand_context,
                   qdrantLog, graphLog, failed, returned, doc_ids>>

\* lines 213-214: the result stream raises while it is iterated
RecordStreamFails ==
    /\ pc = "records"
    /\ results' = SetError(results, "Neo4j query error")
    /\ failed' = failed \cup {"graph_query"}
    /\ pending' = {}
    /\ pc' = "sd_return"
    /\ UNCHANGED <<relatedTo, handles, op, limit, sd_limit, category, expand_context,
                   related_docs, provenance, qdrantLog, graphLog, returned, doc_ids>>

\* line 216, and lines 233-240 when hybrid_search is the caller
ReturnResults ==
    /\ pc = "sd_return"
    /\ returned' = <<results>>
    /\ IF op = "hybrid_search" /\ expand_context
       THEN /\ doc_ids' = SeedIds(results)
            /\ pc' = "deep"
       ELSE /\ doc_ids' = doc_ids
            /\ pc' = "done"
    /\ UNCHANGED <<relatedTo, handles, op, limit, sd_limit, category, expand_context,
                   results, related_docs, pending, provenance, qdrantLog, graphLog, failed>>

\* lines 243-269: the deep expansion; the session, the query or the result
\* stream may raise, the stream after any number n of its records
ExpandContext ==
    /\ pc = "deep"
    /\ IF neo4j_driver = None
       THEN /\ results' = DeepFailure(results, <<>>)
            /\ failed' = failed \cup {"graph_handle"}
            /\ UNCHANGED <<graphLog, provenance>>
       ELSE /\ graphLog' = Append(graphLog, "deep")
            /\ \E recs \in ExpandDeep(doc_ids, limit) :
                 \/ /\ results' = AppendDocs(results, DeepEntries(recs, doc_ids))
                    /\ provenance' = provenance \o Steps(Tagged(recs, "deep"))
                    /\ failed' = failed
                 \/ \E n \in 0..Len(recs) :
                    /\ results' = DeepFailure(results, DeepEntries(SubSeq(recs, 1, n), doc_ids))
                    /\ provenance' = provenance \o Steps(Tagged(SubSeq(recs, 1, n), "deep"))
                    /\ failed' = failed \cup {"deep_query"}
    /\ pc' = "done"
    /\ UNCHANGED <<relatedTo, handles, op, limit, sd_limit, category, expand_context,
                   related_docs, pending, qdrantLog, returned, doc_ids>>

Next ==
    \/ search_documentation
    \/ hybrid_search
    \/ GenerateEmbedding
    \/ SearchCanonical
    \/ SearchLegacy
    \/ QueryGraph
    \/ ProcessRecord
    \/ RecordStreamFails
    \/ ReturnResults
    \/ ExpandContext

Spec == Init /\ [][Next]_vars

(* ============================================================== claims *)
DocIdAt(r, i) == r.related_documents[i].doc_id

Positions(r) == 1..Len(r.related_documents)

\* the entries appended by the steps of kind t
Appended(t) == {i \in 1..Len(provenance) : provenance[i] = t}

\* the documents that own a chunk of r and pass the category filter
HitOwners(r) ==
    {d \in Docs : /\ \E i \in 1..Len(r.chunks) : <<r.chunks[i].chunk_id, d>> \in PART_OF
                  /\ (category # None => <<d, category>> \in HAS_CATEGORY)}

VectorStageFailed == failed \cap {"vector_search", "vector_handle"} # {}

HybridExpanded == pc = "done" /\ op = "hybrid_search" /\ expand_context

\* C1: the related_documents list returned by search_documentation holds no
\* two entries with the same doc_id.
CE_C1_NoDuplicateDocIds ==
    Len(returned) = 1 =>
        \A i, j \in Positions(returned[1]) :
            i # j => DocIdAt(returned[1], i) # DocIdAt(returned[1], j)

\* the graph-discovered entries that name a document (not the null entry
\* of an origin without RELATED_TO target)
RelatedDocuments == {i \in Appended("related") : DocIdAt(results, i) # None}

\* C2: the number of graph-discovered (non-origin) documents appended to
\* related_documents never exceeds the limit of the search_documentation call.
CE_C2_RelatedWithinLimit == Cardinality(RelatedDocuments) <= sd_limit

\* C3: when the first-pass graph query succeeded, every document that owns a
\* returned chunk (and carries the category, if one is given) is in the
\* returned related_documents, whatever the limit: it has an entry of its
\* own there, appended as the origin of its record.
Thm_C3_OriginsNeverTruncated ==
    (Len(returned) = 1 /\ "first_pass" \in Range(graphLog) /\ "graph_query" \notin failed) =>
        \A d \in HitOwners(returned[1]) :
            \E i \in Positions(returned[1]) :
                DocIdAt(returned[1], i) = d /\ i \in Appended("origin")

\* C3's case: an origin document is appended after the related documents
\* already emitted had reached the limit.
Wit_C3_OriginAfterCapReached ==
    /\ Len(returned) = 1
    /\ failed = {}
    /\ \E j \in Appended("origin") :
          Cardinality({i \in Appended("related") : i < j}) >= sd_limit

\* C4: a call in which exactly one stage failed ends by returning a result
\* that carries an error field, never by an unhandled exception.
CE_C4_SingleFailureIsCaptured ==
    (pc \in {"done", "raised"} /\ Cardinality(failed) = 1) =>
        (pc = "done" /\ HasError(results))

\* C5: when the vector index call failed, the graph store is not queried by
\* search_documentation, and what it returns has no chunks, no related
\* documents and a non-empty error.
Thm_C5_VectorFailureSkipsGraph ==
    VectorStageFailed =>
        /\ "first_pass" \notin Range(graphLog)
        /\ Len(returned) = 1 =>
              /\ returned[1].chunks = <<>>
              /\ returned[1].related_documents = <<>>
              /\ HasError(returned[1])
              /\ returned[1].error # ""

\* C5's case: both call shapes were tried, the second failed, a graph driver
\* is there, and search_documentation has returned.
Wit_C5_FallbackFailedToo ==
    /\ Len(returned) = 1
    /\ Len(qdrantLog) = 2
    /\ "vector_search" \in failed
    /\ neo4j_driver # None

\* C6 as claimed: the deep expansion is appended without regard to the first
\* pass, so whenever it succeeds, all it reaches fits the limit, and a
\* first-pass document is reachable from the seeds within two hops, that
\* doc_id is listed twice, once without and once with graph_score.
CE_C6_FirstPassDocListedTwice ==
    (/\ HybridExpanded
     /\ failed = {}
     /\ None \notin Range(doc_ids)
     /\ \E d \in Range(doc_ids) : PathCount(d, doc_ids) > 0
     /\ Cardinality({r \in Docs : PathCount(r, doc_ids) > 0}) <= limit) =>
        \E i, j \in Positions(results) :
            /\ "graph_score" \notin DOMAIN results.related_documents[i]
            /\ "graph_score" \in DOMAIN results.related_documents[j]
            /\ DocIdAt(results, i) = DocIdAt(results, j)

\* C6 amended: no doc_id is listed both by a first-pass entry (without
\* graph_score) and by a deep-expansion entry (with graph_score).
Thm_C6_DeepEntriesAreNew ==
    \A i, j \in Positions(results) :
        (/\ "graph_score" \notin DOMAIN results.related_documents[i]
         /\ "graph_score" \in DOMAIN results.related_documents[j]) =>
            DocIdAt(results, i) # DocIdAt(results, j)

\* C6's case: the deep expansion appended an entry although a document the
\* first pass listed as related is reached again from the seeds.
Wit_C6_DeepAppendedBesideReachableFirstPass ==
    /\ HybridExpanded
    /\ Appended("deep") # {}
    /\ \E i \in Appended("related") : /\ DocIdAt(results, i) # None
                                      /\ PathCount(DocIdAt(results, i), doc_ids) > 0

\* C7: the deep expansion returns no document whose doc_id is in its seed
\* list doc_ids.
Thm_C7_ExpandDeepExcludesSeeds ==
    \A j \in Appended("deep") : DocIdAt(results, j) \notin Range(doc_ids)

\* C7's case: the deep expansion returned something from a graph in which a
\* RELATED_TO cycle of two hops leads from a seed back to itself.
Wit_C7_PathBackToSeed ==
    /\ HybridExpanded
    /\ failed = {}
    /\ Appended("deep") # {}
    /\ \E d \in Range(doc_ids), m \in Docs :
          <<d, m>> \in relatedTo /\ <<m, d>> \in relatedTo

\* C8 as claimed: in what search_documentation returns, every origin document
\* precedes every graph-discovered related document (one that is no origin
\* document itself).
CE_C8_OriginsBeforeAllRelated ==
    Len(returned) = 1 =>
        LET origins == {DocIdAt(results, j) : j \in Appended("origin")}
        IN \A i \in RelatedDocuments, j \in Appended("origin") :
              DocIdAt(results, i) \notin origins => j < i

\* C8 amended: every graph-discovered entry comes after the origin document
\* it was discovered from, with no other origin entry between the two.
Thm_C8_RelatedFollowTheirOrigin ==
    \A j \in Appended("related") :
        \E i \in Appended("origin") :
            /\ i < j
            /\ \A k \in Appended("origin") : ~(i < k /\ k < j)
            /\ DocIdAt(results, j) \in RelatedOf(DocIdAt(results, i))

\* C8's case: two origin documents, the second listed after a related
\* document of the first.
Wit_C8_RelatedBetweenOrigins ==
    /\ Len(returned) = 1
    /\ \E i, k \in Appended("origin") : \E j \in Appended("related") : i < j /\ j < k

\* C9: when the deep expansion fails, the result carries an error and its
\* query, chunks and first-pass related_documents are those the first stage
\* returned, in the same order, followed only by deep-expansion entries.
Thm_C9_DeepFailureKeepsFirstStage ==
    (HybridExpanded /\ ("deep_query" \in failed \/ neo4j_driver = None)) =>
        LET n == Len(returned[1].related_documents)
        IN /\ HasError(results)
           /\ results.query = returned[1].query
           /\ results.chunks = returned[1].chunks
           /\ Len(results.related_documents) >= n
           /\ SubSeq(results.related_documents, 1, n) = returned[1].related_documents
           /\ \A i \in (n + 1)..Len(results.related_documents) :
                 "graph_score" \in DOMAIN results.related_documents[i]

\* C9's case: the deep expansion failed after the first stage had collected
\* chunks and related documents.
Wit_C9_DeepFailedAfterFirstStage ==
    /\ HybridExpanded
    /\ "deep_query" \in failed
    /\ Len(returned[1].chunks) > 0
    /\ Len(returned[1].related_documents) > 1

\* C10: the vector index is called at most twice in a call, first in the
\* canonical shape, in the legacy shape only after the canonical call raised
\* TypeError; each graph query is sent at most once.
Thm_C10_OneFallbackNoRetry ==
    /\ Len(qdrantLog) <= 2
    /\ Len(qdrantLog) >= 1 => qdrantLog[1].shape = "query_vector"
    /\ Len(qdrantLog) = 2 => /\ qdrantLog[1].outcome = "TypeError"
                             /\ qdrantLog[2].shape = "vector"
    /\ \A i, j \in 1..Len(graphLog) : i # j => graphLog[i] # graphLog[j]

\* C10's case: the legacy call failed as well and the call went on to its
\* end without a third attempt.
Wit_C10_LegacyCallFailed ==
    /\ pc = "done"
    /\ Len(qdrantLog) = 2
    /\ qdrantLog[2].outcome # "ok"

====
